---- MODULE Spec2Model ----
(***************************************************************************)
(* Model of the miden-bank contracts: the Bank account component           *)
(* (contracts/bank-account), the deposit note script, the init transaction *)
(* script, and the transactions in which the bank account runs them.       *)
(*                                                                         *)
(* A Felt is an element of the Miden base field, an integer modulo         *)
(* p = 2^64 - 2^32 + 1.  It is held here by its canonical value written in *)
(* three base-10^9 limbs <<hi, mid, lo>> (most significant first), so that *)
(* 64-bit values and the wrap of field subtraction are exact.              *)
(***************************************************************************)
EXTENDS Integers, Sequences, FiniteSets, TLC

VARIABLES initialized, balances, vault, notes, last, credited, debited, ntx

vars == <<initialized, balances, vault, notes, last, credited, debited, ntx>>

(***************************************************************************)
(* Bounds of the model.                                                    *)
(***************************************************************************)
\* committed transactions in one behaviour
MaxTx == 4
\* assets attached to one deposit note
MaxNoteAssets == 2

(***************************************************************************)
(* Felt and unsigned multi-limb arithmetic.                                *)
(***************************************************************************)
Base == 1000 * 1000 * 1000

\* p = 2^64 - 2^32 + 1 = 18446744069414584321
Modulus == <<18, 446744069, 414584321>>

\* 2^63 - 1 = 9223372036854775807, the largest amount of a fungible asset
FungibleMaxAmount == <<9, 223372036, 854775807>>

\* Felt::new(n) / felt!(n) for a small n
F(n) == <<0, n \div Base, n % Base>>

\* a < b on limb values
Lt(a, b) ==
    \/ a[1] < b[1]
    \/ a[1] = b[1] /\ a[2] < b[2]
    \/ a[1] = b[1] /\ a[2] = b[2] /\ a[3] < b[3]

Leq(a, b) == ~Lt(b, a)

\* a + b on limb values, no reduction
RawAdd(a, b) ==
    LET lo  == a[3] + b[3]
        mid == a[2] + b[2] + (lo \div Base)
        hi  == a[1] + b[1] + (mid \div Base)
    IN  <<hi, mid % Base, lo % Base>>

\* a - b on limb values, for a >= b
RawSub(a, b) ==
    LET lo  == a[3] - b[3]
        bl  == IF lo < 0 THEN 1 ELSE 0
        mid == a[2] - b[2] - bl
        bm  == IF mid < 0 THEN 1 ELSE 0
        hi  == a[1] - b[1] - bm
    IN  <<hi, mid + bm * Base, lo + bl * Base>>

\* Felt addition: (a + b) mod p
FeltAdd(a, b) ==
    LET s == RawAdd(a, b)
    IN  IF Lt(s, Modulus) THEN s ELSE RawSub(s, Modulus)

\* subtraction that stops at 0 instead of wrapping
FeltSub_saturating(a, b) ==
    IF Leq(b, a) THEN RawSub(a, b) ELSE F(0)

\* Felt subtraction: (a - b) mod p; wraps to p - (b - a) when b > a
FeltSub(a, b) ==
    IF Leq(b, a) THEN RawSub(a, b) ELSE RawSub(RawAdd(a, Modulus), b)

ZeroWord == <<F(0), F(0), F(0), F(0)>>

(***************************************************************************)
(* Identities, assets and the inputs the transactions are drawn from.      *)
(***************************************************************************)
AccountId(p, s) == [prefix |-> F(p), suffix |-> F(s)]

Depositors == {AccountId(11, 12), AccountId(21, 22)}

Faucets == {AccountId(31, 32), AccountId(41, 42)}

\* amounts of the assets of deposit notes
DepositAmounts == {1000000, 1000001}

\* amounts of the assets of withdraw requests
WithdrawAmounts == {0, 500, 1000000}

\* Asset inner layout for fungible: [amount, 0, faucet_suffix, faucet_prefix]
FungibleAsset(faucet, amount) == <<F(amount), F(0), faucet.suffix, faucet.prefix>>

AssetAmount(asset) == asset[1]

AssetFaucet(asset) == [prefix |-> asset[4], suffix |-> asset[3]]

AssetsOf(amounts) == {FungibleAsset(f, a) : f \in Faucets, a \in amounts}

\* the asset lists of a note: at most one fungible asset per faucet
\* no two assets of a note are issued by the same faucet
DistinctFaucets(l) ==
    \A i, j \in 1..Len(l) : i < j => AssetFaucet(l[i]) # AssetFaucet(l[j])

RECURSIVE NoteAssetLists(_, _)
\* the asset lists of a note, of length at most n
NoteAssetLists(assets, n) ==
    IF n = 0 THEN {<<>>}
    ELSE LET shorter == NoteAssetLists(assets, n - 1)
             longer  == {Append(l, a) : l \in shorter, a \in assets}
         IN  shorter \cup {l \in longer : DistinctFaucets(l)}

DepositNoteAssets == NoteAssetLists(AssetsOf(DepositAmounts), MaxNoteAssets)

WithdrawAssets == AssetsOf(WithdrawAmounts)

SerialNums == {<<F(1), F(2), F(3), F(4)>>}

Tags == {F(7)}

AuxValues == {F(0)}

NoteTypes == {F(1)}

(***************************************************************************)
(* The bank account: storage slot 0 (initialized), slot 1 (balances), the  *)
(* account vault and the output notes of its transactions.                 *)
(***************************************************************************)
MAX_DEPOSIT_AMOUNT == 1000000

\* StorageMap::get: the zero Felt for a key never set
MapGet(map, key) == IF key \in DOMAIN map THEN map[key] ELSE F(0)

\* StorageMap::set; a key set to the zero value is a key never set
MapSet(map, key, value) ==
    IF value = F(0)
    THEN [k \in (DOMAIN map) \ {key} |-> map[k]]
    ELSE [k \in (DOMAIN map) \cup {key} |-> IF k = key THEN value ELSE map[k]]

\* a failed assertion or kernel check: the transaction cannot be proven
Fail(st) == [st EXCEPT !.ok = FALSE]

\* initialize without its assertion
initialize_unchecked(st) ==
    [st EXCEPT !.initialized = <<F(1), F(0), F(0), F(0)>>]

\* initialize writing the cleared word over a set flag
initialize_toggle(st) ==
    IF st.initialized[1] = F(0)
    THEN [st EXCEPT !.initialized = <<F(1), F(0), F(0), F(0)>>]
    ELSE [st EXCEPT !.initialized = <<F(0), F(0), F(0), F(0)>>]

\* initialize writing the flag into the last element of the word
initialize_flag_last(st) ==
    IF st.initialized[1] = F(0)
    THEN [st EXCEPT !.initialized = <<F(0), F(0), F(0), F(1)>>]
    ELSE Fail(st)

initialize(st) ==
    IF st.initialized[1] = F(0)
    THEN [st EXCEPT !.initialized = <<F(1), F(0), F(0), F(0)>>]
    ELSE Fail(st)

\* require_initialized without its assertion
require_initialized_unchecked(st) == st

require_initialized(st) ==
    IF st.initialized[1] = F(1) THEN st ELSE Fail(st)

p2id_note_root ==
    << <<15, 783632360, 113277539>>,
       <<7, 403765918, 285273520>>,
       <<15, 691985194, 755641846>>,
       <<10, 399643920, 503194563>> >>

\* get_balance reading the entry of the depositor for one faucet
get_balance_faucet_key(st, depositor) ==
    MapGet(st.balances, <<depositor.prefix, depositor.suffix, F(31), F(32)>>)

get_balance(st, depositor) ==
    MapGet(st.balances, <<depositor.prefix, depositor.suffix, F(0), F(0)>>)

\* the key without the faucet of the asset
BalanceKey_no_faucet(depositor, asset) ==
    <<depositor.prefix, depositor.suffix, F(0), F(0)>>

\* the key with the faucet suffix before the faucet prefix
BalanceKey_swapped(depositor, asset) ==
    <<depositor.prefix, depositor.suffix, asset[3], asset[4]>>

\* the key deposit and withdraw build: [prefix, suffix, inner[3], inner[2]]
BalanceKey(depositor, asset) ==
    <<depositor.prefix, depositor.suffix, asset[4], asset[3]>>

\* native_account::add_asset: the vault's amount of the asset's faucet grows
add_asset(st, asset) ==
    LET f   == AssetFaucet(asset)
        new == RawAdd(st.vault[f], AssetAmount(asset))
    IN  IF Leq(new, FungibleMaxAmount)
        THEN [st EXCEPT !.vault[f] = new]
        ELSE Fail(st)

\* a removal that takes what the vault holds and never fails
remove_asset_unchecked(st, asset) ==
    LET f == AssetFaucet(asset)
    IN  IF Leq(AssetAmount(asset), st.vault[f])
        THEN [st EXCEPT !.vault[f] = RawSub(st.vault[f], AssetAmount(asset))]
        ELSE [st EXCEPT !.vault[f] = F(0)]

\* native_account::remove_asset: fails when the vault holds less
remove_asset(st, asset) ==
    LET f == AssetFaucet(asset)
    IN  IF Leq(AssetAmount(asset), st.vault[f])
        THEN [st EXCEPT !.vault[f] = RawSub(st.vault[f], AssetAmount(asset))]
        ELSE Fail(st)

\* the bound compared with < instead of <=
DepositAmountAllowed_strict(deposit_amount) ==
    Lt(deposit_amount, F(MAX_DEPOSIT_AMOUNT))

\* deposit_amount.as_u64() <= MAX_DEPOSIT_AMOUNT
DepositAmountAllowed(deposit_amount) ==
    Leq(deposit_amount, F(MAX_DEPOSIT_AMOUNT))

deposit(st, depositor, deposit_asset) ==
    LET s1 == require_initialized(st)
        deposit_amount == deposit_asset[1]
        key == BalanceKey(depositor, deposit_asset)
        current_balance == MapGet(st.balances, key)
        new_balance == FeltAdd(current_balance, deposit_amount)
    IN  IF ~s1.ok THEN s1
        ELSE IF ~DepositAmountAllowed(deposit_amount) THEN Fail(s1)
        ELSE add_asset([s1 EXCEPT !.balances = MapSet(s1.balances, key, new_balance)],
                       deposit_asset)

\* a digest that leaves the serial number out
RecipientCompute_no_serial(serial_num, script_root, inputs) ==
    <<ZeroWord, script_root, inputs>>

\* Recipient::compute: a collision-free digest of its three arguments
RecipientCompute(serial_num, script_root, inputs) ==
    <<serial_num, script_root, inputs>>

\* the recipient inputs with prefix and suffix exchanged
P2idInputs_swapped(recipient_id) ==
    <<recipient_id.prefix, recipient_id.suffix,
      F(0), F(0), F(0), F(0), F(0), F(0)>>

\* the inputs of the P2ID script: [suffix, prefix, 0, 0, 0, 0, 0, 0]
P2idInputs(recipient_id) ==
    <<recipient_id.suffix, recipient_id.prefix,
      F(0), F(0), F(0), F(0), F(0), F(0)>>

create_p2id_note(st, serial_num, asset, recipient_id, tag, aux, note_type) ==
    LET execution_hint == F(0)
        script_root == p2id_note_root
        recipient == RecipientCompute(serial_num, script_root, P2idInputs(recipient_id))
        note == [tag |-> tag, aux |-> aux, note_type |-> note_type,
                 execution_hint |-> execution_hint, recipient |-> recipient,
                 assets |-> <<asset>>]
        s1 == remove_asset(st, asset)
    IN  IF ~s1.ok THEN s1
        ELSE [s1 EXCEPT !.notes = Append(s1.notes, note)]

\* withdraw emitting the note without storing the new balance
withdraw_no_debit(st, depositor, withdraw_asset, serial_num, tag, aux, note_type) ==
    create_p2id_note(st, serial_num, withdraw_asset, depositor, tag, aux, note_type)

withdraw(st, depositor, withdraw_asset, serial_num, tag, aux, note_type) ==
    LET withdraw_amount == withdraw_asset[1]
        key == BalanceKey(depositor, withdraw_asset)
        current_balance == MapGet(st.balances, key)
        new_balance == FeltSub(current_balance, withdraw_amount)
        s1 == [st EXCEPT !.balances = MapSet(st.balances, key, new_balance)]
    IN  create_p2id_note(s1, serial_num, withdraw_asset, depositor, tag, aux, note_type)

RECURSIVE DepositNoteRun_partial(_, _, _)
\* the deposit note script ending with success at the first asset refused
DepositNoteRun_partial(st, depositor, assets) ==
    IF assets = <<>> THEN st
    ELSE LET r == deposit(st, depositor, Head(assets))
         IN  IF ~r.ok THEN [r EXCEPT !.ok = TRUE]
             ELSE DepositNoteRun_partial(r, depositor, Tail(assets))

\* the deposit note script: deposit each asset of the note for its sender
RECURSIVE DepositNoteRun(_, _, _)
DepositNoteRun(st, depositor, assets) ==
    IF assets = <<>> \/ ~st.ok THEN st
    ELSE DepositNoteRun(deposit(st, depositor, Head(assets)), depositor, Tail(assets))

\* the init transaction script
InitScriptRun(st) == initialize(st)

\* stand-in for the hash of a word: a word, different for different words
HashWord(w) ==
    <<FeltAdd(w[1], F(1000003)), FeltAdd(w[2], F(1000033)),
      FeltAdd(w[3], F(1000037)), FeltAdd(w[4], F(1000039))>>

\* the script taking the depositor from the note inputs, not from the sender
WithdrawRequestNoteRun_named(st, depositor, inputs, advice_map, aux, note_type) ==
    IF Len(inputs) < 12 THEN Fail(st)
    ELSE LET withdraw_asset == <<inputs[1], inputs[2], inputs[3], inputs[4]>>
             serial_num == <<inputs[5], inputs[6], inputs[7], inputs[8]>>
             commitment == <<inputs[9], inputs[10], inputs[11], inputs[12]>>
             named == [prefix |-> inputs[5], suffix |-> inputs[6]]
         IN  IF commitment \notin DOMAIN advice_map THEN Fail(st)
             ELSE LET tag_data == advice_map[commitment]
                      tag == tag_data[1]
                  IN  IF HashWord(tag_data) # commitment THEN Fail(st)
                      ELSE withdraw(st, named, withdraw_asset, serial_num,
                                    tag, aux, note_type)

\* the script taking the advice value without verifying its hash
WithdrawRequestNoteRun_unverified(st, depositor, inputs, advice_map, aux, note_type) ==
    IF Len(inputs) < 12 THEN Fail(st)
    ELSE LET withdraw_asset == <<inputs[1], inputs[2], inputs[3], inputs[4]>>
             serial_num == <<inputs[5], inputs[6], inputs[7], inputs[8]>>
             commitment == <<inputs[9], inputs[10], inputs[11], inputs[12]>>
         IN  IF commitment \notin DOMAIN advice_map THEN Fail(st)
             ELSE withdraw(st, depositor, withdraw_asset, serial_num,
                           advice_map[commitment][1], aux, note_type)

\* the withdraw request note script, consumed by the bank: inputs are the
\* note inputs, advice_map the advice map of the transaction.  The script
\* calls withdraw with depositor, asset, serial number and tag; aux and
\* note_type are the two arguments of withdraw that the call does not give.
WithdrawRequestNoteRun(st, depositor, inputs, advice_map, aux, note_type) ==
    IF Len(inputs) < 12 THEN Fail(st)
    ELSE LET withdraw_asset == <<inputs[1], inputs[2], inputs[3], inputs[4]>>
             serial_num == <<inputs[5], inputs[6], inputs[7], inputs[8]>>
             commitment == <<inputs[9], inputs[10], inputs[11], inputs[12]>>
         IN  IF commitment \notin DOMAIN advice_map THEN Fail(st)
             ELSE LET tag_data == advice_map[commitment]
                      tag == tag_data[1]
                  IN  IF HashWord(tag_data) # commitment THEN Fail(st)
                      ELSE withdraw(st, depositor, withdraw_asset, serial_num,
                                    tag, aux, note_type)

(***************************************************************************)
(* Transactions.  The account state a transaction starts from, and the     *)
(* commit of its result: all of it when every check passed, nothing        *)
(* otherwise.  last describes the transaction just executed; credited and  *)
(* debited are history variables: per balance key, the amounts of the      *)
(* committed deposits and withdrawals.                                     *)
(***************************************************************************)
LedgerKeys == {<<d.prefix, d.suffix, f.prefix, f.suffix>> : d \in Depositors, f \in Faucets}

Start == [ok |-> TRUE, initialized |-> initialized, balances |-> balances,
          vault |-> vault, notes |-> notes]

RECURSIVE SumFor(_, _, _)
\* the limb sum of the amounts of the assets of a list that fall under key
SumFor(depositor, assets, key) ==
    IF assets = <<>> THEN F(0)
    ELSE RawAdd(IF BalanceKey(depositor, Head(assets)) = key
                THEN AssetAmount(Head(assets)) ELSE F(0),
                SumFor(depositor, Tail(assets), key))

\* the transaction op of account who, with the assets and the further inputs
\* it was given, ended in st
\* advice is the advice map of the transaction; last keeps the balances and
\* the vault the transaction started from
CommitAdvised(st, op, who, assets, inputs, advice, result) ==
    /\ ntx < MaxTx
    /\ last' = [op |-> op, ok |-> st.ok, who |-> who, assets |-> assets,
                inputs |-> inputs, advice |-> advice, result |-> result,
                before |-> [balances |-> balances, vault |-> vault]]
    /\ IF st.ok
       THEN /\ initialized' = st.initialized
            /\ balances' = st.balances
            /\ vault' = st.vault
            /\ notes' = st.notes
            /\ ntx' = ntx + 1
            /\ credited' = IF op = "deposit"
                           THEN [k \in LedgerKeys |->
                                   RawAdd(credited[k], SumFor(who, assets, k))]
                           ELSE credited
            /\ debited' = IF op \in {"withdraw", "withdraw_request"}
                          THEN [k \in LedgerKeys |->
                                  RawAdd(debited[k], SumFor(who, assets, k))]
                          ELSE debited
       ELSE UNCHANGED <<initialized, balances, vault, notes, credited, debited, ntx>>

CommitTx(st, op, who, assets, inputs, result) ==
    CommitAdvised(st, op, who, assets, inputs, <<>>, result)

Commit(st, op, who, assets, result) == CommitTx(st, op, who, assets, <<>>, result)

Init ==
    /\ initialized = ZeroWord
    /\ balances = <<>>
    /\ vault = [f \in Faucets |-> F(0)]
    /\ notes = <<>>
    /\ last = [op |-> "none", ok |-> TRUE, who |-> AccountId(0, 0), assets |-> <<>>,
               inputs |-> <<>>, advice |-> <<>>, result |-> F(0),
               before |-> [balances |-> <<>>, vault |-> [f \in Faucets |-> F(0)]]]
    /\ credited = [k \in LedgerKeys |-> F(0)]
    /\ debited = [k \in LedgerKeys |-> F(0)]
    /\ ntx = 0

\* the bank account runs the init transaction script
InitializeTx ==
    Commit(InitScriptRun(Start), "initialize", AccountId(0, 0), <<>>, F(0))

\* the bank account consumes a deposit note sent by sender
DepositWith(lists) ==
    \E sender \in Depositors, assets \in lists :
        Commit(DepositNoteRun(Start, sender, assets), "deposit", sender, assets, F(0))

DepositTx == DepositWith(DepositNoteAssets)

\* the routing data of a withdraw: serial number, tag, aux, note type
Routing(serial_num, tag, aux, note_type) ==
    [serial_num |-> serial_num, tag |-> tag, aux |-> aux, note_type |-> note_type]

\* the bank account runs withdraw for a withdraw request of depositor
WithdrawWith(assets, routings) ==
    \E depositor \in Depositors, asset \in assets, r \in routings :
        CommitTx(withdraw(Start, depositor, asset, r.serial_num, r.tag, r.aux, r.note_type),
                 "withdraw", depositor, <<asset>>,
                 r.serial_num \o <<r.tag, r.aux, r.note_type>>, F(0))

WithdrawTx ==
    WithdrawWith(WithdrawAssets,
                 {Routing(s, t, a, n) : s \in SerialNums, t \in Tags,
                                        a \in AuxValues, n \in NoteTypes})

\* get_balance is called for depositor
GetBalanceTx ==
    \E depositor \in Depositors :
        /\ ntx < MaxTx
        /\ last' = [op |-> "get_balance", ok |-> TRUE, who |-> depositor,
                    assets |-> <<>>, inputs |-> <<>>, advice |-> <<>>,
                    result |-> get_balance(Start, depositor),
                    before |-> [balances |-> balances, vault |-> vault]]
        /\ UNCHANGED <<initialized, balances, vault, notes, credited, debited, ntx>>

Next == InitializeTx \/ DepositTx \/ WithdrawTx \/ GetBalanceTx

Spec == Init /\ [][Next]_vars

(***************************************************************************)
(* The bank after initialize and a deposit note of the second depositor    *)
(* carrying 1,000,000 units of the first faucet, and the transactions on   *)
(* the assets of that faucet from there.                                   *)
(***************************************************************************)
FundedDepositor == AccountId(21, 22)

FundedFaucet == AccountId(31, 32)

InitFunded ==
    LET st == DepositNoteRun(InitScriptRun([ok |-> TRUE, initialized |-> ZeroWord,
                                            balances |-> <<>>,
                                            vault |-> [f \in Faucets |-> F(0)],
                                            notes |-> <<>>]),
                             FundedDepositor,
                             <<FungibleAsset(FundedFaucet, MAX_DEPOSIT_AMOUNT)>>)
    IN  /\ initialized = st.initialized
        /\ balances = st.balances
        /\ vault = st.vault
        /\ notes = st.notes
        /\ last = [op |-> "none", ok |-> TRUE, who |-> AccountId(0, 0), assets |-> <<>>,
                   inputs |-> <<>>, advice |-> <<>>, result |-> F(0),
                   before |-> [balances |-> st.balances, vault |-> st.vault]]
        /\ credited = [k \in LedgerKeys |->
                         IF k = <<FundedDepositor.prefix, FundedDepositor.suffix,
                                  FundedFaucet.prefix, FundedFaucet.suffix>>
                         THEN F(MAX_DEPOSIT_AMOUNT) ELSE F(0)]
        /\ debited = [k \in LedgerKeys |-> F(0)]
        /\ ntx = 0

FundedDepositTx ==
    DepositWith({<<FungibleAsset(FundedFaucet, MAX_DEPOSIT_AMOUNT)>>})

FundedWithdrawTx ==
    WithdrawWith({FungibleAsset(FundedFaucet, a) : a \in WithdrawAmounts},
                 {Routing(s, t, a, n) : s \in SerialNums, t \in Tags,
                                        a \in AuxValues, n \in NoteTypes})

NextFunded == FundedDepositTx \/ FundedWithdrawTx \/ GetBalanceTx

SpecFunded == InitFunded /\ [][NextFunded]_vars

(***************************************************************************)
(* Withdraws with varied routing data, directly and through withdraw       *)
(* request notes.                                                          *)
(***************************************************************************)
RequestAsset == FungibleAsset(AccountId(31, 32), 500)

RoutingProfiles ==
    { Routing(<<F(1), F(2), F(3), F(4)>>, F(7), F(0), F(1)),
      Routing(<<F(5), F(6), F(7), F(8)>>, F(8), F(5), F(2)),
      Routing(<<F(1), F(2), F(3), F(4)>>, F(8), F(0), F(2)),
      Routing(<<F(1), F(2), F(3), F(5)>>, F(7), F(0), F(1)) }

\* the request note of withdraw_test: inputs 8, 9 and 10 are tag, aux and
\* note type, and the transaction has no advice map entry
TestRequest(asset, r) ==
    [inputs |-> asset \o r.serial_num \o <<r.tag, r.aux, r.note_type>>,
     advice |-> <<>>]

\* the request note of the note script's documentation: inputs 8 to 11 are
\* the hash of [tag, 0, 0, 0], which the advice map maps to [tag, 0, 0, 0]
CommittedRequest(asset, r) ==
    LET tag_data == <<r.tag, F(0), F(0), F(0)>>
    IN  [inputs |-> asset \o r.serial_num \o HashWord(tag_data),
         advice |-> (HashWord(tag_data) :> tag_data)]

\* the same note in a transaction without the advice map entry
UnadvisedRequest(asset, r) ==
    [CommittedRequest(asset, r) EXCEPT !.advice = <<>>]

\* the same note in a transaction whose advice map has, under the
\* commitment, a value that does not hash to it
ForgedRequest(asset, r) ==
    LET q == CommittedRequest(asset, r)
    IN  [q EXCEPT !.advice = (SubSeq(q.inputs, 9, 12)
                                :> <<FeltAdd(r.tag, F(1)), F(0), F(0), F(0)>>)]

Requests ==
    {TestRequest(RequestAsset, r) : r \in RoutingProfiles}
      \cup {CommittedRequest(RequestAsset, r) : r \in RoutingProfiles}
      \cup {UnadvisedRequest(RequestAsset, r) : r \in RoutingProfiles}
      \cup {ForgedRequest(RequestAsset, r) : r \in RoutingProfiles}

\* the values that the two arguments not given by the note script may take
UnsuppliedArguments == {<<F(0), F(1)>>, <<F(5), F(2)>>}

RequestDepositTx ==
    DepositWith({<<FungibleAsset(AccountId(31, 32), MAX_DEPOSIT_AMOUNT)>>})

RoutedWithdrawTx == WithdrawWith({RequestAsset}, RoutingProfiles)

\* the bank account consumes a withdraw request note sent by sender
WithdrawRequestTx ==
    \E sender \in Depositors, q \in Requests, u \in UnsuppliedArguments :
        CommitAdvised(WithdrawRequestNoteRun(Start, sender, q.inputs, q.advice,
                                             u[1], u[2]),
                      "withdraw_request", sender,
                      <<SubSeq(q.inputs, 1, 4)>>, q.inputs, q.advice, F(0))

NextRequests ==
    InitializeTx \/ RequestDepositTx \/ RoutedWithdrawTx \/ WithdrawRequestTx

SpecRequests == Init /\ [][NextRequests]_vars

(***************************************************************************)
(* Vocabulary of the properties.                                           *)
(***************************************************************************)
Flag == initialized[1]

KeyOf(d, f) == <<d.prefix, d.suffix, f.prefix, f.suffix>>

\* the stored balance of depositor d for the assets of faucet f
Bal(d, f) == MapGet(balances, KeyOf(d, f))

\* the step just taken executed a transaction of kind op
Did(op) == last'.op = op

RECURSIVE SumBal(_, _)
\* the integer sum of the stored balances of the depositors ds for faucet f
SumBal(ds, f) ==
    IF ds = {} THEN F(0)
    ELSE LET d == CHOOSE x \in ds : TRUE
         IN  RawAdd(Bal(d, f), SumBal(ds \ {d}, f))

\* the output note is addressed to account d
AddressedTo(note, d) ==
    /\ note.recipient[3][1] = d.suffix
    /\ note.recipient[3][2] = d.prefix

RECURSIVE EmittedTo(_, _, _)
\* the integer sum of the amounts of faucet f carried by the notes of ns
\* that are addressed to d
EmittedTo(ns, d, f) ==
    IF ns = <<>> THEN F(0)
    ELSE RawAdd(IF AddressedTo(Head(ns), d) /\ AssetFaucet(Head(ns).assets[1]) = f
                THEN AssetAmount(Head(ns).assets[1]) ELSE F(0),
                EmittedTo(Tail(ns), d, f))

RECURSIVE SumFaucet(_, _)
\* the integer sum of the amounts of the assets of a list issued by faucet f
SumFaucet(assets, f) ==
    IF assets = <<>> THEN F(0)
    ELSE RawAdd(IF AssetFaucet(Head(assets)) = f THEN AssetAmount(Head(assets)) ELSE F(0),
                SumFaucet(Tail(assets), f))

(***************************************************************************)
(* C1.  A withdraw of more than the stored balance of (D, X) is rejected   *)
(* and leaves the balances, the vault and the emitted notes unchanged,     *)
(* also when the vault holds units of X that other depositors deposited.   *)
(***************************************************************************)
C1_WithdrawAboveBalanceRejected ==
    [][ (Did("withdraw")
         /\ Lt(MapGet(balances, BalanceKey(last'.who, last'.assets[1])),
               AssetAmount(last'.assets[1])))
        => (~last'.ok /\ UNCHANGED <<balances, vault, notes>>) ]_vars

(***************************************************************************)
(* C2.  Conservation per key: the stored balance of every key, read as a   *)
(* non-negative integer, is the sum of the amounts deposited to the key    *)
(* minus the sum of the amounts withdrawn from it, in integer arithmetic.  *)
(***************************************************************************)
C2_ConservationPerKey ==
    \A k \in LedgerKeys :
        /\ Leq(debited[k], credited[k])
        /\ MapGet(balances, k) = RawSub(credited[k], debited[k])

(***************************************************************************)
(* C3.  Depositor isolation: the notes emitted to D carry in total no more *)
(* units of X than D deposited.                                            *)
(***************************************************************************)
C3_DepositorIsolation ==
    \A d \in Depositors, f \in Faucets :
        Leq(EmittedTo(notes, d, f), credited[KeyOf(d, f)])

(***************************************************************************)
(* C4.  Vault solvency: the vault's amount of X is the integer sum of the  *)
(* stored balances of all depositors for X.                                *)
(***************************************************************************)
C4_VaultSolvency ==
    \A f \in Faucets : vault[f] = SumBal(Depositors, f)

(***************************************************************************)
(* C5.  Deposit gate: while the flag is 0 a transaction consuming a        *)
(* deposit note that carries an asset is rejected, for every sender and    *)
(* asset, and no deposit transaction changes the balances, the vault or    *)
(* the flag.                                                               *)
(***************************************************************************)
C5_DepositGate ==
    [][ (Did("deposit") /\ Flag = F(0))
        => /\ last'.assets # <<>> => ~last'.ok
           /\ UNCHANGED <<balances, vault, initialized>> ]_vars

C5_Witness ==
    /\ last.op = "deposit"
    /\ ~last.ok
    /\ last.assets # <<>>
    /\ \A i \in 1..Len(last.assets) : DepositAmountAllowed(AssetAmount(last.assets[i]))
    /\ Flag = F(0)

(***************************************************************************)
(* C6.  Withdraw gate: while the flag is 0 every withdraw, of any amount   *)
(* (0 included), is rejected, emits no note and changes no state.          *)
(***************************************************************************)
C6_WithdrawGate ==
    [][ (Did("withdraw") /\ Flag = F(0))
        => (~last'.ok /\ UNCHANGED <<initialized, balances, vault, notes>>) ]_vars

(***************************************************************************)
(* C7.  Initialize is one-shot: with the flag already 1, initialize is     *)
(* rejected and leaves the flag, the balances and the vault unchanged,     *)
(* whatever deposits and withdrawals happened in between.                  *)
(***************************************************************************)
C7_InitializeOneShot ==
    [][ (Did("initialize") /\ Flag = F(1))
        => (~last'.ok /\ UNCHANGED <<initialized, balances, vault>>) ]_vars

C7_Witness ==
    /\ last.op = "initialize"
    /\ ~last.ok
    /\ Flag = F(1)
    /\ \E k \in LedgerKeys : credited[k] # F(0)
    /\ notes # <<>>

(***************************************************************************)
(* C8.  The flag is monotonic: it starts at 0, the flag word is always     *)
(* [0,0,0,0] or [1,0,0,0], and the only change of the word is from 0 to 1, *)
(* made by a successful initialize; once 1 it stays 1.                     *)
(***************************************************************************)
C8_FlagMonotonic ==
    /\ initialized = ZeroWord
    /\ [](initialized \in {ZeroWord, <<F(1), F(0), F(0), F(0)>>})
    /\ [][ /\ Flag = F(1) => initialized' = initialized
           /\ initialized' # initialized
                => (Flag = F(0) /\ initialized'[1] = F(1)
                    /\ Did("initialize") /\ last'.ok) ]_vars

C8_Witness ==
    /\ Flag = F(1)
    /\ last.op \in {"deposit", "withdraw", "get_balance"}
    /\ notes # <<>>
    /\ ntx = MaxTx

(***************************************************************************)
(* C9.  Deposit bound: with the bank initialized, a deposit transaction is *)
(* rejected if and only if an asset of the note has amount greater than    *)
(* MAX_DEPOSIT_AMOUNT; a rejected one changes no balance and adds nothing  *)
(* to the vault; an amount of exactly 1,000,000 is accepted.               *)
(***************************************************************************)
C9_DepositBound ==
    [][ (Did("deposit") /\ Flag = F(1))
        => /\ ~last'.ok <=>
                \E i \in 1..Len(last'.assets) :
                    Lt(F(MAX_DEPOSIT_AMOUNT), AssetAmount(last'.assets[i]))
           /\ ~last'.ok => UNCHANGED <<balances, vault>> ]_vars

\* a deposit of 1,000,001 is rejected after one of exactly 1,000,000 was accepted
C9_Witness ==
    /\ Flag = F(1)
    /\ last.op = "deposit"
    /\ ~last.ok
    /\ Len(last.assets) = 1
    /\ AssetAmount(last.assets[1]) = F(MAX_DEPOSIT_AMOUNT + 1)
    /\ credited[BalanceKey(last.who, last.assets[1])] = F(MAX_DEPOSIT_AMOUNT)
    /\ MapGet(balances, BalanceKey(last.who, last.assets[1])) = F(MAX_DEPOSIT_AMOUNT)

(***************************************************************************)
(* C10.  Deposit effect: when the initialized bank consumes a deposit note *)
(* of sender S whose assets all have amount <= 1,000,000, then for each    *)
(* asset of type X and amount a the stored balance of (S, X), read as an   *)
(* integer, grows by exactly a and the vault gains exactly a units of X;   *)
(* no other key is credited.                                               *)
(***************************************************************************)
C10_DepositEffect ==
    [][ (/\ Did("deposit")
         /\ Flag = F(1)
         /\ \A i \in 1..Len(last'.assets) :
                DepositAmountAllowed(AssetAmount(last'.assets[i])))
        => /\ last'.ok
           /\ \A k \in LedgerKeys :
                MapGet(balances', k) =
                    RawAdd(MapGet(balances, k), SumFor(last'.who, last'.assets, k))
           /\ \A f \in Faucets :
                vault'[f] = RawAdd(vault[f], SumFaucet(last'.assets, f)) ]_vars

(***************************************************************************)
(* Further vocabulary: the asset, amount and key of the transaction of the *)
(* step just taken, and the note it emitted.                               *)
(***************************************************************************)
StepAsset == last'.assets[1]

StepAmount == AssetAmount(last'.assets[1])

StepKey == BalanceKey(last'.who, last'.assets[1])

NewNote == notes'[Len(notes')]

(***************************************************************************)
(* C11.  get_balance reports the ledger balance: called for a depositor D  *)
(* whose deposits are all of one asset type, it returns the balance entry  *)
(* that deposit and withdraw maintain for D and that asset type (n after a *)
(* deposit of n on an empty ledger).                                       *)
(***************************************************************************)
C11_GetBalanceReportsLedger ==
    last.op = "get_balance"
    => \A f \in Faucets :
          (/\ Bal(last.who, f) # F(0)
           /\ \A g \in Faucets \ {f} : Bal(last.who, g) = F(0))
          => last.result = Bal(last.who, f)

(***************************************************************************)
(* C12.  Withdraw effect: in an initialized bank where (D, X) has balance  *)
(* b, a withdraw by D of a units of X with 0 < a <= b succeeds, leaves the *)
(* balance b - a, removes exactly a units of X from the vault and emits    *)
(* exactly one note, carrying exactly a units of X and no other asset.     *)
(***************************************************************************)
C12_WithdrawEffect ==
    [][ (/\ Did("withdraw")
         /\ Flag = F(1)
         /\ Lt(F(0), StepAmount)
         /\ Leq(StepAmount, MapGet(balances, StepKey)))
        => /\ last'.ok
           /\ MapGet(balances', StepKey) = RawSub(MapGet(balances, StepKey), StepAmount)
           /\ vault'[AssetFaucet(StepAsset)]
                = RawSub(vault[AssetFaucet(StepAsset)], StepAmount)
           /\ Len(notes') = Len(notes) + 1
           /\ NewNote.assets = <<StepAsset>> ]_vars

(***************************************************************************)
(* C13.  Withdraw atomicity: a note is emitted exactly by a successful     *)
(* withdraw, one per withdraw; the note carrying a units of X goes with    *)
(* one debit of a from the balance entry of the withdrawer for X, read as  *)
(* an integer, and one removal of a units of X from the vault; in a step   *)
(* that emits no note the vault does not decrease and no balance           *)
(* decreases.                                                              *)
(***************************************************************************)
C13_WithdrawAtomicity ==
    [][ IF Did("withdraw") /\ last'.ok
        THEN /\ Len(notes') = Len(notes) + 1
             /\ SubSeq(notes', 1, Len(notes)) = notes
             /\ NewNote.assets = <<StepAsset>>
             /\ Leq(StepAmount, MapGet(balances, StepKey))
             /\ MapGet(balances', StepKey)
                  = RawSub(MapGet(balances, StepKey), StepAmount)
             /\ \A k \in LedgerKeys \ {StepKey} :
                  MapGet(balances', k) = MapGet(balances, k)
             /\ \A f \in Faucets :
                  vault'[f] = IF f = AssetFaucet(StepAsset)
                              THEN RawSub(vault[f], StepAmount) ELSE vault[f]
        ELSE /\ notes' = notes
             /\ \A f \in Faucets : Leq(vault[f], vault'[f])
             /\ \A k \in LedgerKeys :
                  Leq(MapGet(balances, k), MapGet(balances', k)) ]_vars

(***************************************************************************)
(* C14.  All-or-nothing transactions: a transaction in which a check fails *)
(* commits nothing.  A deposit note of an initialized bank one of whose    *)
(* assets exceeds 1,000,000 is rejected as a whole: the credits and vault  *)
(* additions made for its earlier assets are not in the resulting state.   *)
(***************************************************************************)
C14_AllOrNothing ==
    [][ /\ ~last'.ok => UNCHANGED <<initialized, balances, vault, notes>>
        /\ (/\ Did("deposit")
            /\ Flag = F(1)
            /\ \E i \in 1..Len(last'.assets) :
                  ~DepositAmountAllowed(AssetAmount(last'.assets[i])))
           => (~last'.ok /\ UNCHANGED <<initialized, balances, vault, notes>>) ]_vars

\* a rejected note whose first asset was acceptable and whose second was not:
\* the sender's entry for the first asset holds what was committed before
C14_Witness ==
    /\ last.op = "deposit"
    /\ ~last.ok
    /\ Flag = F(1)
    /\ Len(last.assets) = 2
    /\ DepositAmountAllowed(AssetAmount(last.assets[1]))
    /\ ~DepositAmountAllowed(AssetAmount(last.assets[2]))
    /\ MapGet(balances, BalanceKey(last.who, last.assets[1]))
         = credited[BalanceKey(last.who, last.assets[1])]
    /\ \E k \in LedgerKeys : credited[k] # F(0)

(***************************************************************************)
(* C15.  Withdraw availability: in an initialized bank a withdraw by D of  *)
(* any amount a <= the stored balance of (D, X) succeeds, whatever other   *)
(* depositors did before; the vault removal never fails.                   *)
(***************************************************************************)
C15_WithdrawAvailability ==
    [][ (/\ Did("withdraw")
         /\ Flag = F(1)
         /\ Leq(StepAmount, MapGet(balances, StepKey)))
        => last'.ok ]_vars

\* the serial number given to the withdraw of the step just taken
StepSerial ==
    IF last'.op = "withdraw" THEN SubSeq(last'.inputs, 1, 4)
    ELSE SubSeq(last'.inputs, 5, 8)

(***************************************************************************)
(* C16.  Routing data are forwarded verbatim: when the bank consumes a     *)
(* withdraw request note with the inputs [amount, 0, faucet_suffix,        *)
(* faucet_prefix, serial_num (4), tag, aux, note_type] and the balance and *)
(* the vault cover the amount, the transaction succeeds and the tag, aux   *)
(* and note type of the emitted note are inputs 8, 9 and 10 of the note.   *)
(***************************************************************************)
C16_RoutingForwarded ==
    [][ (/\ Did("withdraw_request")
         /\ Len(last'.inputs) = 11
         /\ Leq(StepAmount, MapGet(balances, StepKey))
         /\ Leq(StepAmount, vault[AssetFaucet(StepAsset)]))
        => /\ last'.ok
           /\ Len(notes') = Len(notes) + 1
           /\ NewNote.tag = last'.inputs[9]
           /\ NewNote.aux = last'.inputs[10]
           /\ NewNote.note_type = last'.inputs[11] ]_vars

(***************************************************************************)
(* C17.  The note emitted by a withdraw for depositor D with serial number *)
(* s is addressed to D: its recipient is compute_recipient(s, P2ID script  *)
(* root, [D.suffix, D.prefix, 0, 0, 0, 0, 0, 0]), for every withdraw,      *)
(* whatever the asset, tag, aux, note type and ledger state.               *)
(***************************************************************************)
C17_RecipientIsDepositor ==
    [][ ((Did("withdraw") \/ Did("withdraw_request")) /\ last'.ok)
        => /\ Len(notes') = Len(notes) + 1
           /\ NewNote.recipient
                = RecipientCompute(StepSerial, p2id_note_root,
                                   <<last'.who.suffix, last'.who.prefix,
                                     F(0), F(0), F(0), F(0), F(0), F(0)>>) ]_vars

\* a withdraw emitted a note for a depositor that already has a note which
\* differs from it in tag, aux and note type, the stored balance having
\* wrapped or not
C17_Witness ==
    /\ last.op \in {"withdraw", "withdraw_request"}
    /\ last.ok
    /\ Len(notes) >= 2
    /\ AddressedTo(notes[Len(notes)], last.who)
    /\ \E i \in 1..(Len(notes) - 1) :
          /\ AddressedTo(notes[i], last.who)
          /\ notes[i].tag # notes[Len(notes)].tag
          /\ notes[i].aux # notes[Len(notes)].aux
          /\ notes[i].note_type # notes[Len(notes)].note_type

(***************************************************************************)
(* C18.  Serial number reuse is not detected: a withdraw by D with a       *)
(* serial number that an earlier withdraw by D used, for an amount that    *)
(* the balance of D covers (D having withdrawn no more than D deposited),  *)
(* succeeds, debits the balance and emits a note with the same recipient   *)
(* as the earlier note.                                                    *)
(***************************************************************************)
C18_SerialReuse ==
    [][ (/\ Did("withdraw")
         /\ Leq(debited[StepKey], credited[StepKey])
         /\ Leq(StepAmount, MapGet(balances, StepKey))
         /\ \E i \in 1..Len(notes) :
               /\ notes[i].recipient[1] = StepSerial
               /\ AddressedTo(notes[i], last'.who))
        => /\ last'.ok
           /\ Len(notes') = Len(notes) + 1
           /\ \E i \in 1..Len(notes) : notes[i].recipient = NewNote.recipient
           /\ MapGet(balances', StepKey)
                = RawSub(MapGet(balances, StepKey), StepAmount) ]_vars

(***************************************************************************)
(* C19.  get_balance is total and read-only: it can be called and succeeds *)
(* in every state, also before initialize, returns 0 for a depositor that  *)
(* never deposited, and changes neither the flag, nor a balance, nor the   *)
(* vault, nor the emitted notes.                                           *)
(***************************************************************************)
C19_GetBalanceReadOnly ==
    /\ [](ntx < MaxTx => ENABLED GetBalanceTx)
    /\ [][ Did("get_balance")
           => /\ last'.ok
              /\ UNCHANGED <<initialized, balances, vault, notes>>
              /\ (\A f \in Faucets : credited[KeyOf(last'.who, f)] = F(0))
                   => last'.result = F(0) ]_vars

\* called before initialize, and called for a depositor that never deposited
\* while another one did
C19_Witness ==
    /\ last.op = "get_balance"
    /\ last.ok
    /\ last.result = F(0)
    /\ \A f \in Faucets : credited[KeyOf(last.who, f)] = F(0)
    /\ \/ Flag = F(0)
       \/ \E k \in LedgerKeys : credited[k] # F(0)

(***************************************************************************)
(* C20.  Two withdrawals against the same balance: when (D, X) has balance *)
(* b and a withdraw of a1 <= b for (D, X) has succeeded, a withdraw of     *)
(* a2 <= b for (D, X) with a1 + a2 > b that comes next is rejected, also   *)
(* when the vault holds units of X of other depositors.                    *)
(***************************************************************************)
C20_RacingWithdrawals ==
    [][ (/\ last.op = "withdraw"
         /\ last.ok
         /\ Did("withdraw")
         /\ last'.who = last.who
         /\ AssetFaucet(StepAsset) = AssetFaucet(last.assets[1])
         /\ LET a1 == AssetAmount(last.assets[1])
                b  == FeltAdd(MapGet(balances, StepKey), a1)
            IN  /\ Leq(a1, b)
                /\ Leq(StepAmount, b)
                /\ Lt(b, RawAdd(a1, StepAmount)))
        => ~last'.ok ]_vars

(***************************************************************************)
(* Further vocabulary: the balance entries a transaction is for, and the   *)
(* sum of the balances of a faucet in the field.                           *)
(***************************************************************************)
\* the entries of who for the faucets of the assets
EntriesOf(who, assets) ==
    {KeyOf(who, AssetFaucet(assets[i])) : i \in 1..Len(assets)}

RECURSIVE SumBalModP(_, _)
\* the sum modulo p of the stored balances of the depositors ds for faucet f
SumBalModP(ds, f) ==
    IF ds = {} THEN F(0)
    ELSE LET d == CHOOSE x \in ds : TRUE
         IN  FeltAdd(Bal(d, f), SumBalModP(ds \ {d}, f))

(***************************************************************************)
(* C21.  Credit never wraps: after a successful deposit of amount a to a   *)
(* key whose stored balance is b, the stored balance read as an integer is *)
(* b + a; no deposit makes a stored balance smaller.                       *)
(***************************************************************************)
C21_CreditNeverWraps ==
    [][ (Did("deposit") /\ last'.ok)
        => \A i \in 1..Len(last'.assets) :
              LET k == KeyOf(last'.who, AssetFaucet(last'.assets[i]))
              IN  /\ Leq(MapGet(balances, k), MapGet(balances', k))
                  /\ RawSub(MapGet(balances', k), MapGet(balances, k))
                       = AssetAmount(last'.assets[i]) ]_vars

(***************************************************************************)
(* C22.  Frame of ledger mutations: a successful deposit or withdraw for   *)
(* depositor D and asset type X changes the balance entry of (D, X) only;  *)
(* every other entry of the map, also (D, Y) and (D', X), and the          *)
(* initialization flag are unchanged.                                      *)
(***************************************************************************)
C22_LedgerFrame ==
    [][ ((Did("deposit") \/ Did("withdraw")) /\ last'.ok)
        => /\ initialized' = initialized
           /\ \A k \in (DOMAIN balances \cup DOMAIN balances' \cup LedgerKeys)
                         \ EntriesOf(last'.who, last'.assets) :
                MapGet(balances', k) = MapGet(balances, k) ]_vars

\* a successful deposit or withdraw changed the entry of (D, X) while D has
\* a balance for another faucet and another depositor has a balance for X
C22_Witness ==
    /\ last.op \in {"deposit", "withdraw"}
    /\ last.ok
    /\ Len(last.assets) = 1
    /\ LET f == AssetFaucet(last.assets[1])
           k == KeyOf(last.who, f)
       IN  /\ MapGet(balances, k) # MapGet(last.before.balances, k)
           /\ \E g \in Faucets \ {f} : Bal(last.who, g) # F(0)
           /\ \E d \in Depositors \ {last.who} : Bal(d, f) # F(0)

(***************************************************************************)
(* C25.  Initialize effect and frame: in the uninitialized state           *)
(* initialize succeeds, sets the flag word to [1, 0, 0, 0], leaves every   *)
(* balance entry and the vault unchanged and emits no note.                *)
(***************************************************************************)
C25_InitializeEffect ==
    [][ (Did("initialize") /\ Flag = F(0))
        => /\ last'.ok
           /\ initialized' = <<F(1), F(0), F(0), F(0)>>
           /\ UNCHANGED <<balances, vault, notes>> ]_vars

\* initialize has succeeded in a bank that had already emitted a note
C25_Witness ==
    /\ last.op = "initialize"
    /\ last.ok
    /\ initialized = <<F(1), F(0), F(0), F(0)>>
    /\ Len(notes) >= 1

(***************************************************************************)
(* C27.  Balance key layout as claimed: deposit and withdraw keep the      *)
(* balance of depositor D for an asset under the key (D.prefix, D.suffix,  *)
(* asset.type_suffix, asset.type_prefix).                                  *)
(***************************************************************************)
C27_KeyLayoutSuffixFirst ==
    [][ ((Did("deposit") \/ Did("withdraw")) /\ last'.ok)
        => \A i \in 1..Len(last'.assets) :
              LET f == AssetFaucet(last'.assets[i])
                  a == AssetAmount(last'.assets[i])
                  k == <<last'.who.prefix, last'.who.suffix, f.suffix, f.prefix>>
              IN  MapGet(balances', k) = IF Did("deposit")
                                         THEN FeltAdd(MapGet(balances, k), a)
                                         ELSE FeltSub(MapGet(balances, k), a) ]_vars

(***************************************************************************)
(* C27 amended.  Deposit and withdraw keep the balance of depositor D for  *)
(* an asset under the key (D.prefix, D.suffix, asset.type_prefix,          *)
(* asset.type_suffix), in that element order.                              *)
(***************************************************************************)
C27_KeyLayout ==
    [][ ((Did("deposit") \/ Did("withdraw")) /\ last'.ok)
        => \A i \in 1..Len(last'.assets) :
              LET f == AssetFaucet(last'.assets[i])
                  a == AssetAmount(last'.assets[i])
                  k == <<last'.who.prefix, last'.who.suffix, f.prefix, f.suffix>>
              IN  MapGet(balances', k) = IF Did("deposit")
                                         THEN FeltAdd(MapGet(balances, k), a)
                                         ELSE FeltSub(MapGet(balances, k), a) ]_vars

\* a withdraw of a positive amount has debited the entry that the deposits
\* of the same depositor had credited
C27_Witness ==
    /\ last.op = "withdraw"
    /\ last.ok
    /\ Lt(F(0), AssetAmount(last.assets[1]))
    /\ LET f == AssetFaucet(last.assets[1])
           k == <<last.who.prefix, last.who.suffix, f.prefix, f.suffix>>
       IN  /\ credited[k] # F(0)
           /\ Leq(debited[k], credited[k])
           /\ MapGet(balances, k) = RawSub(credited[k], debited[k])
           /\ MapGet(balances, k) # MapGet(last.before.balances, k)

(***************************************************************************)
(* C28.  While the initialization flag is 0, every balance entry is 0 and  *)
(* the vault is empty, whatever deposits, withdraws and get_balance calls  *)
(* were attempted before initialize.                                       *)
(***************************************************************************)
C28_EmptyBeforeInitialize ==
    Flag = F(0)
    => /\ \A k \in DOMAIN balances \cup LedgerKeys : MapGet(balances, k) = F(0)
       /\ \A f \in Faucets : vault[f] = F(0)

\* before initialize a withdraw of a positive amount has been rejected,
\* after a withdraw that was accepted
C28_Witness ==
    /\ Flag = F(0)
    /\ last.op = "withdraw"
    /\ ~last.ok
    /\ Lt(F(0), AssetAmount(last.assets[1]))
    /\ Len(notes) >= 1

(***************************************************************************)
(* C29.  Modular conservation: in every reachable state, for every asset   *)
(* type X, the sum over all depositors of the stored balance for X, taken  *)
(* modulo the field prime, equals the amount of X in the vault, also when  *)
(* a balance has wrapped.                                                  *)
(***************************************************************************)
C29_ModularConservation ==
    \A f \in Faucets : SumBalModP(Depositors, f) = vault[f]

\* a balance has wrapped while the vault holds units of the same faucet
C29_Witness ==
    \E d \in Depositors, f \in Faucets :
        /\ Lt(FungibleMaxAmount, Bal(d, f))
        /\ vault[f] # F(0)
        /\ \E e \in Depositors \ {d} : Bal(e, f) # F(0)

(***************************************************************************)
(* C30.  Deposit/withdraw round trip: in an initialized bank a successful  *)
(* deposit of asset (X, a) for D immediately followed by a withdraw of the *)
(* same asset by D succeeds and restores every balance entry and the vault *)
(* to their values before the deposit; one more note is emitted, carrying  *)
(* a units of X.                                                           *)
(***************************************************************************)
C30_RoundTrip ==
    [][ (/\ last.op = "deposit"
         /\ last.ok
         /\ Len(last.assets) = 1
         /\ Did("withdraw")
         /\ last'.who = last.who
         /\ last'.assets = last.assets)
        => /\ last'.ok
           /\ balances' = last.before.balances
           /\ vault' = last.before.vault
           /\ Len(notes') = Len(notes) + 1
           /\ SubSeq(notes', 1, Len(notes)) = notes
           /\ NewNote.assets = last.assets ]_vars

\* the bank after initialize, one deposit and the withdraw of the deposited
\* asset by its depositor, and no other committed transaction
C30_Witness ==
    /\ last.op = "withdraw"
    /\ last.ok
    /\ Flag = F(1)
    /\ ntx = 3
    /\ Len(notes) = 1
    /\ AssetAmount(last.assets[1]) = F(MAX_DEPOSIT_AMOUNT)
    /\ LET k == KeyOf(last.who, AssetFaucet(last.assets[1]))
       IN  /\ credited[k] = F(MAX_DEPOSIT_AMOUNT)
           /\ debited[k] = F(MAX_DEPOSIT_AMOUNT)
           /\ \A j \in LedgerKeys \ {k} : credited[j] = F(0) /\ debited[j] = F(0)
    /\ balances = <<>>
    /\ \A f \in Faucets : vault[f] = F(0)

(***************************************************************************)
(* Further vocabulary: the withdraw transactions and their serial number.  *)
(***************************************************************************)
WithdrawOps == {"withdraw", "withdraw_request"}

\* the serial number given to the withdraw of transaction l
SerialOf(l) ==
    IF l.op = "withdraw" THEN SubSeq(l.inputs, 1, 4) ELSE SubSeq(l.inputs, 5, 8)

(***************************************************************************)
(* C23.  The withdraw request note acts for its sender only: the balance   *)
(* entry debited is the sender's entry for the asset of the note, no other *)
(* entry changes, and the emitted note is addressed to the sender; a       *)
(* rejected request changes nothing.                                       *)
(***************************************************************************)
C23_RequestActsForSender ==
    [][ Did("withdraw_request")
        => IF last'.ok
           THEN LET k == KeyOf(last'.who, AssetFaucet(StepAsset))
                IN  /\ Len(notes') = Len(notes) + 1
                    /\ AddressedTo(NewNote, last'.who)
                    /\ \A d \in Depositors \ {last'.who} : ~AddressedTo(NewNote, d)
                    /\ MapGet(balances', k) = FeltSub(MapGet(balances, k), StepAmount)
                    /\ \A j \in (DOMAIN balances \cup DOMAIN balances' \cup LedgerKeys)
                                  \ {k} :
                         MapGet(balances', j) = MapGet(balances, j)
           ELSE UNCHANGED <<initialized, balances, vault, notes>> ]_vars

\* a request note was accepted while another depositor had a balance for the
\* asset, which the request left as it was
C23_Witness ==
    /\ last.op = "withdraw_request"
    /\ last.ok
    /\ AddressedTo(notes[Len(notes)], last.who)
    /\ \E d \in Depositors \ {last.who} :
          /\ Bal(d, AssetFaucet(last.assets[1])) # F(0)
          /\ Bal(d, AssetFaucet(last.assets[1]))
               = MapGet(last.before.balances, KeyOf(d, AssetFaucet(last.assets[1])))

(***************************************************************************)
(* C24.  Tag by commitment lookup: the tag that the withdraw request note  *)
(* script passes to withdraw is element 0 of the advice value stored under *)
(* the commitment of note inputs 8..11, a value that hashes to the         *)
(* commitment; when no such value is available the transaction is rejected *)
(* and no balance, vault or note changes.                                  *)
(***************************************************************************)
C24_TagByCommitment ==
    [][ Did("withdraw_request")
        => IF /\ Len(last'.inputs) >= 12
              /\ SubSeq(last'.inputs, 9, 12) \in DOMAIN last'.advice
              /\ HashWord(last'.advice[SubSeq(last'.inputs, 9, 12)])
                   = SubSeq(last'.inputs, 9, 12)
           THEN last'.ok
                => /\ Len(notes') = Len(notes) + 1
                   /\ NewNote.tag = last'.advice[SubSeq(last'.inputs, 9, 12)][1]
           ELSE /\ ~last'.ok
                /\ UNCHANGED <<initialized, balances, vault, notes>> ]_vars

\* a request whose advice value does not hash to the commitment was rejected
\* although the vault covers the amount, after a request that was accepted
\* with the tag of its advice value
C24_Witness ==
    /\ last.op = "withdraw_request"
    /\ ~last.ok
    /\ Len(last.inputs) = 12
    /\ SubSeq(last.inputs, 9, 12) \in DOMAIN last.advice
    /\ HashWord(last.advice[SubSeq(last.inputs, 9, 12)]) # SubSeq(last.inputs, 9, 12)
    /\ Leq(AssetAmount(last.assets[1]), vault[AssetFaucet(last.assets[1])])
    /\ Len(notes) >= 1
    /\ HashWord(<<notes[Len(notes)].tag, F(0), F(0), F(0)>>) = SubSeq(last.inputs, 9, 12)

(***************************************************************************)
(* C26.  Recipient determinism: of two successive successful withdrawals,  *)
(* the emitted notes have the same recipient commitment exactly when the   *)
(* withdrawals have the same depositor and the same serial number,         *)
(* whatever the ledger state, asset, tag, aux and note type.               *)
(***************************************************************************)
C26_RecipientDeterminism ==
    [][ (/\ last.op \in WithdrawOps
         /\ last.ok
         /\ last'.op \in WithdrawOps
         /\ last'.ok
         /\ Len(notes') = Len(notes) + 1)
        => ((last.who = last'.who /\ SerialOf(last) = StepSerial)
              <=> notes[Len(notes)].recipient = NewNote.recipient) ]_vars

\* two successive withdrawals of a depositor with the same serial number and
\* different tag and note type have emitted notes with the same recipient
C26_Witness ==
    /\ last.op \in WithdrawOps
    /\ last.ok
    /\ Len(notes) >= 2
    /\ notes[Len(notes)].recipient = notes[Len(notes) - 1].recipient
    /\ notes[Len(notes)].tag # notes[Len(notes) - 1].tag
    /\ notes[Len(notes)].note_type # notes[Len(notes) - 1].note_type
    /\ MapGet(balances, KeyOf(last.who, AssetFaucet(last.assets[1])))
         # MapGet(last.before.balances, KeyOf(last.who, AssetFaucet(last.assets[1])))

(***************************************************************************)
(* C31.  Every note emitted by withdraw carries a strictly positive        *)
(* amount: no withdraw of an asset of amount 0, by a sender with or        *)
(* without a balance, makes the bank emit a note.                          *)
(***************************************************************************)
C31_NotesCarryValue ==
    \A i \in 1..Len(notes) :
        /\ Len(notes[i].assets) = 1
        /\ Lt(F(0), AssetAmount(notes[i].assets[1]))

====
